---- MODULE Spec2Model ----
(***************************************************************************)
(* Verification model of neuron-toolkit.                                   *)
(*                                                                         *)
(* Four specifications share this module:                                  *)
(*   Spec        the SimulationRunner pipeline (core/runner.py with the    *)
(*               builder, stimulus and recording managers it drives);      *)
(*   SpecOrch    the command line, run_experiment / validate_experiment    *)
(*               and the configuration validator;                          *)
(*   SpecConfig  construction of ExperimentConfig from a parsed document;  *)
(*   SpecBuilder the builder applying the biophysics of one section.       *)
(* Floating point literals of the program are kept as strings.            *)
(***************************************************************************)
EXTENDS Integers, Sequences, FiniteSets, TLC

VARIABLES
    \* ---- SimulationRunner world (Spec) ----
    config,          \* the ExperimentConfig the runner was constructed with
    pc,              \* position inside run_simulation, "idle" between calls
    steps,           \* pipeline steps started during the current/last call
    pending,         \* the step whose error is propagating, or "none"
    retval,          \* value of the `return self.get_results()` expression
    outcome,         \* what the caller of run_simulation observed
    cleanups,        \* number of cleanup() executions in the current/last call
    runnerSections,  \* which dict object runner.sections references
    dicts,           \* contents of the two section dicts (runner's own, builder's)
    stimMgr,         \* runner.stimulus_manager
    recMgr,          \* runner.recording_manager
    engine,          \* process-wide state of the simulation engine (h)
    output,          \* run_experiment's output_dir argument and what was saved
    \* ---- ExperimentConfig construction (SpecConfig) ----
    doc,             \* the parsed document handed to ExperimentConfig(**doc)
    built,           \* result of the construction
    \* ---- command line, orchestration, validator, logging (SpecOrch) ----
    file,            \* what is stored at the configuration path
    call,            \* the entry point in progress and its arguments
    opc,             \* position inside that entry point
    logger,          \* the process-wide "neuron_toolkit" logger
    logCall,         \* the most recent setup_logging call and how it ended
    orch,            \* what the call has done so far
    api,             \* result of a direct validator call
    ret,             \* how run_experiment / validate_experiment ended
    exitCode,        \* how main ended
    \* ---- biophysics of one section (SpecBuilder) ----
    biophysics,      \* the BiophysicsConfig applied to the section
    section,         \* the attributes of the section and their values
    bpc,             \* position inside apply_section_biophysics
    mechIndex,       \* position of the loop over config.mechanisms
    writes,          \* attributes assigned by the parameter methods, by mechanism
    bioError         \* the statement of apply_section_biophysics that raised

runVars == <<config, pc, steps, pending, retval, outcome, cleanups,
             runnerSections, dicts, stimMgr, recMgr, engine, output>>

cfgVars == <<doc, built>>

orchVars == <<file, call, opc, logger, logCall, orch, api, ret, exitCode>>

bioVars == <<biophysics, section, bpc, mechIndex, writes, bioError>>

vars == <<runVars, cfgVars, orchVars, bioVars>>

nonRunVars == <<cfgVars, orchVars, bioVars>>

nonCfgVars == <<runVars, orchVars, bioVars>>

nonOrchVars == <<runVars, cfgVars, bioVars>>

nonBioVars == <<runVars, cfgVars, orchVars>>

-----------------------------------------------------------------------------
(* Bounds of the model *)

MaxStimuli == 1
MaxRecordings == 2
MaxDocStimuli == 1
MaxDocRecordings == 1
MaxDocConnections == 1

-----------------------------------------------------------------------------
(* Generic helpers *)

SeqsUpTo(S, n) == UNION {[1..k -> S] : k \in 0..n}

Prefix(s, k) == [i \in 1..k |-> s[i]]

Range(s) == {s[i] : i \in DOMAIN s}

EmptyMap == [x \in {} |-> x]

Put(m, k, v) == [x \in DOMAIN m \cup {k} |-> IF x = k THEN v ELSE m[x]]

-----------------------------------------------------------------------------
(* Configurations handed to the runner *)

Morphologies == {<<"soma">>, <<"soma", "dend">>}

\* Recording entries the configurations are built from: a voltage probe, a
\* probe named like the clock's key, a membrane current probe and a probe
\* of a variable the engine does not expose.
RecordingChoices ==
    { [name |-> "v_rec", variable |-> "v",   section |-> "soma"],
      [name |-> "time",  variable |-> "v",   section |-> "soma"],
      [name |-> "i_rec", variable |-> "i",   section |-> "dend"],
      [name |-> "ca",    variable |-> "cai", section |-> "soma"] }

ConnectionsOf(secs) ==
    IF Len(secs) > 1 THEN <<[parent |-> secs[1], child |-> secs[2]]>> ELSE <<>>

RunnerConfigs ==
    UNION {
      { [ sections    |-> secs,
          connections |-> ConnectionsOf(secs),
          biophysics  |-> {secs[1]},
          stimuli     |-> st,
          recordings  |-> rc,
          dt_ms       |-> "0.05",
          tstop_ms    |-> "10.0",
          temperature_celsius |-> "36.0",
          directory   |-> "results" ]
        : st \in SeqsUpTo([name : {"stim"}, section : Range(secs)], MaxStimuli),
          rc \in SeqsUpTo({r \in RecordingChoices : r.section \in Range(secs)},
                          MaxRecordings) }
      : secs \in Morphologies }

-----------------------------------------------------------------------------
(* Engine: process-wide globals of the external simulator *)

V_INIT == "-65.0"

EngineDefaults ==
    [ dt |-> "0.025", tstop |-> "5.0", v_init |-> "engine-default",
      celsius |-> "6.3", cvode_active |-> "engine-default", phase |-> "fresh" ]

\* configure_simulation: the five settings, in program order; k of them are
\* applied (k = 5 is the complete method).
ConfigureAssignments(e, c, k) ==
    [ e EXCEPT !.dt           = IF k >= 1 THEN c.dt_ms ELSE @,
               !.tstop        = IF k >= 2 THEN c.tstop_ms ELSE @,
               !.v_init       = IF k >= 3 THEN V_INIT ELSE @,
               !.celsius      = IF k >= 4 THEN c.temperature_celsius ELSE @,
               !.cvode_active = IF k >= 5 THEN "0" ELSE @ ]

NumConfigureAssignments == 5

-----------------------------------------------------------------------------
(* Stimulus manager *)

NoStimulusManager == [exists |-> FALSE, sections |-> "own", stimuli |-> <<>>]

StimulusManager(ref) == [exists |-> TRUE, sections |-> ref, stimuli |-> <<>>]

\* create_stimulus raises ValueError when the section is not in the mapping
StimulusResolvable(st, secset) == st.section \in secset

\* Indices k such that create_stimuli may have appended exactly k stimuli when it
\* stops: all of them (success), or fewer when the (k+1)-th creation raised.  A
\* creation raises for an unresolvable section, and may raise inside the engine.
StimuliCreatedCounts(cfgs, secset) ==
    {k \in 0..Len(cfgs) : \A i \in 1..k : StimulusResolvable(cfgs[i], secset)}

StimuliComplete(cfgs, k) == k = Len(cfgs)

StimulusCleanup(sm) == [sm EXCEPT !.stimuli = <<>>]

-----------------------------------------------------------------------------
(* Recording manager *)

FreshVector == [bound |-> "none", section |-> "none", data |-> "empty"]

NoRecordingManager ==
    [ exists |-> FALSE, sections |-> "own", recording_vectors |-> EmptyMap,
      time_vector |-> FreshVector, configsRef |-> "own", ownConfigs |-> <<>> ]

RecordingManager(ref) ==
    [ exists |-> TRUE, sections |-> ref, recording_vectors |-> EmptyMap,
      time_vector |-> FreshVector, configsRef |-> "own", ownConfigs |-> <<>> ]

\* Variables the engine exposes on a segment besides v and i_membrane
ExposedVariables == {}

\* the engine reference a probe is bound to
ReferenceOf(variable) ==
    CASE variable = "v" -> "_ref_v"
      [] variable = "i" -> "_ref_i_membrane"
      [] OTHER          -> variable

\* create_recording raises ValueError for an unknown section or variable
RecordingResolvable(rc, secset) ==
    /\ rc.section \in secset
    /\ rc.variable \in {"v", "i"} \cup ExposedVariables

RECURSIVE RecordingVectorsAfter(_, _)
\* recording_vectors after create_recording succeeded on cfgs[1..k]
RecordingVectorsAfter(cfgs, k) ==
    IF k = 0 THEN EmptyMap
    ELSE Put(RecordingVectorsAfter(cfgs, k - 1), cfgs[k].name,
             [ bound |-> ReferenceOf(cfgs[k].variable),
               section |-> cfgs[k].section, data |-> "empty" ])

RecordingsCreatedCounts(cfgs, secset) ==
    {k \in 0..Len(cfgs) : \A i \in 1..k : RecordingResolvable(cfgs[i], secset)}

\* setup_recordings, stopped after k probes (k = Len(cfgs): complete)
SetupRecordingsState(rm, cfgs, k) ==
    [ rm EXCEPT !.configsRef = "config",
                !.time_vector = [bound |-> "_ref_t", section |-> "none", data |-> "empty"],
                !.recording_vectors = RecordingVectorsAfter(cfgs, k) ]

\* the list rm.recording_configs refers to
RecordingConfigs(rm, c) ==
    IF rm.configsRef = "config" THEN c.recordings ELSE rm.ownConfigs

GetRecordingData(rm) ==
    [ key \in {"time"} \cup DOMAIN rm.recording_vectors |->
        IF key \in DOMAIN rm.recording_vectors
        THEN rm.recording_vectors[key]
        ELSE rm.time_vector ]

RecordingCleanup(rm) ==
    [ rm EXCEPT !.recording_vectors = EmptyMap,
                !.time_vector = FreshVector,
                !.configsRef = "own",
                !.ownConfigs = <<>> ]

\* Effect of an engine phase on the probes the manager holds
Recorded(rm, data) ==
    [ rm EXCEPT !.time_vector =
                    IF @.bound = "none" THEN @ ELSE [@ EXCEPT !.data = data],
                !.recording_vectors =
                    [n \in DOMAIN @ |-> [@[n] EXCEPT !.data = data]] ]

-----------------------------------------------------------------------------
(* Model builder *)

\* Where build_model can stop: after creating k sections ("create", the next
\* creation raised), in connect_sections, in apply_biophysics, or not at all.
\* (set_environment only assigns h.celsius: the configurations carry no seed.)
BuildStops(c) ==
    {[stage |-> "create", created |-> k] : k \in 0..(Len(c.sections) - 1)}
    \cup (IF c.connections # <<>>
          THEN {[stage |-> "connect", created |-> Len(c.sections)]} ELSE {})
    \cup (IF c.biophysics # {}
          THEN {[stage |-> "biophysics", created |-> Len(c.sections)]} ELSE {})
    \cup {[stage |-> "none", created |-> Len(c.sections)]}

\* create_sections: builder.sections[name] = section, in morphology order
CreatedSections(c, k) == {c.sections[i] : i \in 1..k}

-----------------------------------------------------------------------------
(* SimulationRunner *)

\* Mutant of StepAfter: recordings are set up before the stimuli are created
StepAfterSwapped(step) ==
    CASE step = "build"      -> "recordings"
      [] step = "recordings" -> "stimuli"
      [] step = "stimuli"    -> "configure"
      [] step = "configure"  -> "initialize"
      [] step = "initialize" -> "run"
      [] step = "run"        -> "extract"
      [] step = "extract"    -> "cleanup"

\* The statement that follows each pipeline step inside the try block
StepAfter(step) ==
    CASE step = "build"      -> "stimuli"
      [] step = "stimuli"    -> "recordings"
      [] step = "recordings" -> "configure"
      [] step = "configure"  -> "initialize"
      [] step = "initialize" -> "run"
      [] step = "run"        -> "extract"
      [] step = "extract"    -> "cleanup"

\* try/finally: a raising step transfers control to the finally block
AfterRaise(step) == "cleanup"

\* Mutant of Completion: the finally block swallows the pending error
CompletionSwallowing(pend, value) ==
    [kind |-> "returned", error |-> "none", results |-> value]

\* Mutant of Completion: the returned arrays share the storage of the probes,
\* which cleanup discards
CompletionSharingProbes(pend, value) ==
    IF pend # "none"
    THEN [kind |-> "raised", error |-> pend, results |-> EmptyMap]
    ELSE [kind |-> "returned", error |-> "none",
          results |-> [k \in DOMAIN value |-> FreshVector]]

\* What leaves run_simulation once the finally block is done: the pending
\* error if a step raised, else the value of the return expression.
Completion(pend, value) ==
    IF pend # "none"
    THEN [kind |-> "raised", error |-> pend, results |-> EmptyMap]
    ELSE [kind |-> "returned", error |-> "none", results |-> value]

NoOutcome == [kind |-> "none", error |-> "none", results |-> EmptyMap]

\* Mutant of ClearedSections: cleanup forgets the section mapping
ClearedSectionsForgotten(d, ref) == d

\* cleanup(): the dict runner.sections refers to is cleared in place
ClearedSections(d, ref) == [d EXCEPT ![ref] = {}]

\* Mutant of ConfigAfterCleanup: the list shared with the configuration is
\* emptied in place
ConfigAfterCleanupInPlace(c, rm) ==
    IF rm.exists /\ rm.configsRef = "config"
    THEN [c EXCEPT !.recordings = <<>>]
    ELSE c

\* cleanup() as seen from the configuration: recording_manager.cleanup()
\* rebinds self.recording_configs to a new empty list, stimulus_manager
\* .cleanup() rebinds its own list and sections.clear() empties a dict of
\* the builder; the list objects of the configuration are not written
ConfigAfterCleanup(c, rm) == c

\* output_dir arguments: absent or a directory
OutputDirs == {"none", "out"}

\* the output_dir argument of run_experiment, not applied, nothing saved
NoOutput(o) == [override |-> o, applied |-> FALSE, saved |-> "none"]

RunInit ==
    /\ config \in RunnerConfigs
    /\ pc = "idle"
    /\ steps = <<>>
    /\ pending = "none"
    /\ retval = EmptyMap
    /\ outcome = NoOutcome
    /\ cleanups = 0
    /\ runnerSections = "own"
    /\ dicts = [own |-> {}, builder |-> {}]
    /\ stimMgr = NoStimulusManager
    /\ recMgr = NoRecordingManager
    /\ engine = EngineDefaults
    /\ output \in {NoOutput(o) : o \in OutputDirs}

\* SimulationRunner(config): a fresh runner (and builder) is constructed from
\* the same configuration and replaces the old one
NewRunner ==
    /\ UNCHANGED nonRunVars
    /\ output' = output
    /\ pc = "idle"
    /\ config' = config
    /\ steps' = <<>>
    /\ pending' = "none"
    /\ retval' = EmptyMap
    /\ outcome' = NoOutcome
    /\ cleanups' = 0
    /\ runnerSections' = "own"
    /\ dicts' = [own |-> {}, builder |-> {}]
    /\ stimMgr' = NoStimulusManager
    /\ recMgr' = NoRecordingManager
    /\ UNCHANGED <<pc, engine>>

\* run_simulation() is entered
CallRunSimulation ==
    /\ UNCHANGED nonRunVars
    /\ output' = output
    /\ pc = "idle"
    /\ pc' = "build"
    /\ steps' = <<>>
    /\ pending' = "none"
    /\ retval' = EmptyMap
    /\ outcome' = NoOutcome
    /\ cleanups' = 0
    /\ UNCHANGED <<config, runnerSections, dicts, stimMgr, recMgr, engine>>

\* setup_model: self.sections = self.builder.build_model()
SetupModel ==
    /\ UNCHANGED nonRunVars
    /\ output' = output
    /\ pc = "build"
    /\ steps' = Append(steps, "build")
    /\ \E stop \in BuildStops(config) :
         /\ dicts' = [dicts EXCEPT !["builder"] =
                          @ \cup CreatedSections(config, stop.created)]
         /\ IF stop.stage = "none"
            THEN /\ runnerSections' = "builder"
                 /\ engine' = [engine EXCEPT !.celsius = config.temperature_celsius]
                 /\ pc' = StepAfter("build")
                 /\ pending' = pending
            ELSE /\ pc' = AfterRaise("build")
                 /\ pending' = "build"
                 /\ UNCHANGED <<runnerSections, engine>>
    /\ UNCHANGED <<config, retval, outcome, cleanups, stimMgr, recMgr>>

\* setup_stimuli: a new StimulusManager over runner.sections, then create_stimuli
SetupStimuli ==
    /\ UNCHANGED nonRunVars
    /\ output' = output
    /\ pc = "stimuli"
    /\ steps' = Append(steps, "stimuli")
    /\ \E k \in StimuliCreatedCounts(config.stimuli, dicts[runnerSections]) :
         /\ stimMgr' = [StimulusManager(runnerSections) EXCEPT
                            !.stimuli = Prefix(config.stimuli, k)]
         /\ \/ /\ StimuliComplete(config.stimuli, k)
               /\ pc' = StepAfter("stimuli")
               /\ pending' = pending
            \/ /\ ~StimuliComplete(config.stimuli, k)
               /\ pc' = AfterRaise("stimuli")
               /\ pending' = "stimuli"
    /\ UNCHANGED <<config, retval, outcome, cleanups, runnerSections, dicts,
                   recMgr, engine>>

\* setup_recordings: a new RecordingManager over runner.sections, then
\* setup_recordings on config.recordings
SetupRecordings ==
    /\ UNCHANGED nonRunVars
    /\ output' = output
    /\ pc = "recordings"
    /\ steps' = Append(steps, "recordings")
    /\ \E k \in RecordingsCreatedCounts(config.recordings, dicts[runnerSections]) :
         /\ recMgr' = SetupRecordingsState(RecordingManager(runnerSections),
                                           config.recordings, k)
         /\ \/ /\ k = Len(config.recordings)
               /\ pc' = StepAfter("recordings")
               /\ pending' = pending
            \/ /\ k < Len(config.recordings)
               /\ pc' = AfterRaise("recordings")
               /\ pending' = "recordings"
    /\ UNCHANGED <<config, retval, outcome, cleanups, runnerSections, dicts,
                   stimMgr, engine>>

\* configure_simulation: k settings are applied before the engine raises
\* (k = NumConfigureAssignments: the method completes)
ConfigureSimulation ==
    /\ UNCHANGED nonRunVars
    /\ output' = output
    /\ pc = "configure"
    /\ steps' = Append(steps, "configure")
    /\ \E k \in 0..NumConfigureAssignments :
         /\ engine' = ConfigureAssignments(engine, config, k)
         /\ IF k = NumConfigureAssignments
            THEN pc' = StepAfter("configure") /\ pending' = pending
            ELSE pc' = AfterRaise("configure") /\ pending' = "configure"
    /\ UNCHANGED <<config, retval, outcome, cleanups, runnerSections, dicts,
                   stimMgr, recMgr>>

\* run_neuron_simulation, first statement: h.finitialize(h.v_init)
InitializeEngine ==
    /\ UNCHANGED nonRunVars
    /\ output' = output
    /\ pc = "initialize"
    /\ steps' = Append(steps, "initialize")
    /\ \/ /\ engine' = [engine EXCEPT !.phase = "initialized"]
          /\ recMgr' = Recorded(recMgr, "initial")
          /\ pc' = StepAfter("initialize")
          /\ pending' = pending
       \/ /\ pc' = AfterRaise("initialize")
          /\ pending' = "initialize"
          /\ UNCHANGED <<engine, recMgr>>
    /\ UNCHANGED <<config, retval, outcome, cleanups, runnerSections, dicts,
                   stimMgr>>

\* run_neuron_simulation, second statement: h.run()
RunEngine ==
    /\ UNCHANGED nonRunVars
    /\ output' = output
    /\ pc = "run"
    /\ steps' = Append(steps, "run")
    /\ \/ /\ engine' = [engine EXCEPT !.phase = "ran"]
          /\ recMgr' = Recorded(recMgr, "trace")
          /\ pc' = StepAfter("run")
          /\ pending' = pending
       \/ /\ pc' = AfterRaise("run")
          /\ pending' = "run"
          /\ UNCHANGED <<engine, recMgr>>
    /\ UNCHANGED <<config, retval, outcome, cleanups, runnerSections, dicts,
                   stimMgr>>

\* return self.get_results(): RuntimeError without a recording manager; the
\* conversion of the probes to arrays may raise as well
GetResults ==
    /\ UNCHANGED nonRunVars
    /\ output' = output
    /\ pc = "extract"
    /\ steps' = Append(steps, "extract")
    /\ \/ /\ recMgr.exists
          /\ retval' = GetRecordingData(recMgr)
          /\ pc' = StepAfter("extract")
          /\ pending' = pending
       \/ /\ pc' = AfterRaise("extract")
          /\ pending' = "extract"
          /\ retval' = retval
    /\ UNCHANGED <<config, outcome, cleanups, runnerSections, dicts,
                   stimMgr, recMgr, engine>>

\* finally: self.cleanup(); then the call completes towards its caller
Cleanup ==
    /\ UNCHANGED nonRunVars
    /\ output' = output
    /\ pc = "cleanup"
    /\ steps' = Append(steps, "cleanup")
    /\ cleanups' = cleanups + 1
    /\ stimMgr' = IF stimMgr.exists THEN StimulusCleanup(stimMgr) ELSE stimMgr
    /\ recMgr' = IF recMgr.exists THEN RecordingCleanup(recMgr) ELSE recMgr
    /\ dicts' = ClearedSections(dicts, runnerSections)
    /\ config' = ConfigAfterCleanup(config, recMgr)
    /\ outcome' = Completion(pending, retval)
    /\ pc' = "idle"
    /\ UNCHANGED <<pending, retval, runnerSections, engine>>

\* run_experiment: if output_dir: config.outputs.directory = output_dir,
\* after the configuration was loaded and before the runner is used
OverrideOutputDir ==
    /\ UNCHANGED nonRunVars
    /\ pc = "idle"
    /\ steps = <<>>
    /\ outcome = NoOutcome
    /\ ~output.applied
    /\ config' = IF output.override # "none"
                 THEN [config EXCEPT !.directory = output.override]
                 ELSE config
    /\ output' = [output EXCEPT !.applied = TRUE]
    /\ UNCHANGED <<pc, steps, pending, retval, outcome, cleanups, runnerSections,
                   dicts, stimMgr, recMgr, engine>>

\* run_experiment: OutputManager(config).save_results(results) and
\* save_metadata(): the output directory is read from the configuration;
\* writing the files may fail
SaveOutputs ==
    /\ UNCHANGED nonRunVars
    /\ pc = "idle"
    /\ outcome.kind = "returned"
    /\ output.saved = "none"
    /\ \/ output' = [output EXCEPT !.saved = config.directory]
       \/ output' = [output EXCEPT !.saved = "failed"]
    /\ UNCHANGED <<config, pc, steps, pending, retval, outcome, cleanups,
                   runnerSections, dicts, stimMgr, recMgr, engine>>

-----------------------------------------------------------------------------
(* Parsed configuration documents and ExperimentConfig construction          *)

\* Section names that occur in documents, with Python's string order on them
SectionNames == {"axon", "dend", "soma"}

NameRank == [axon |-> 1, dend |-> 2, soma |-> 3]

RECURSIVE Sorted(_)
\* sorted(available_sections)
Sorted(S) ==
    IF S = {} THEN <<>>
    ELSE LET least == CHOOSE x \in S : \A y \in S : NameRank[x] <= NameRank[y]
         IN  <<least>> \o Sorted(S \ {least})

\* A parsed document: kind is "mapping", "null" (empty file) or "sequence";
\* a mapping carries the parts the construction looks at.  tstop says whether
\* simulation.tstop_ms is present, nsegQuoted whether an nseg is written as a
\* quoted number, connectionsNull whether morphology.connections is null.
Document(kind, tstop, nsegQuoted, secs, st, rc, bio, conns, connsNull) ==
    [ kind |-> kind, tstop |-> tstop, nsegQuoted |-> nsegQuoted,
      sections |-> secs, stimuli |-> st, recordings |-> rc,
      biophysics |-> bio, connections |-> conns, connectionsNull |-> connsNull ]

NonMapping(kind) == Document(kind, FALSE, FALSE, <<>>, <<>>, <<>>, {}, <<>>, FALSE)

\* available_sections = set(morphology.sections.keys())
AvailableSections(d) == Range(d.sections)

\* index of the first entry whose section is not available, 0 if none
FirstDangling(entries, avail) ==
    IF \E i \in DOMAIN entries : entries[i].section \notin avail
    THEN CHOOSE i \in DOMAIN entries :
            /\ entries[i].section \notin avail
            /\ \A j \in 1..(i - 1) : entries[j].section \in avail
    ELSE 0

\* Mutant of ConnectionDangling: the child end is not checked
ConnectionDanglingParentOnly(conn, avail) ==
    IF conn.parent \notin avail THEN "parent" ELSE "none"

\* which end of a connection is reported: parent is checked before child
ConnectionDangling(conn, avail) ==
    IF conn.parent \notin avail THEN "parent"
    ELSE IF conn.child \notin avail THEN "child"
    ELSE "none"

FirstDanglingConnection(conns, avail) ==
    IF \E i \in DOMAIN conns : ConnectionDangling(conns[i], avail) # "none"
    THEN CHOOSE i \in DOMAIN conns :
            /\ ConnectionDangling(conns[i], avail) # "none"
            /\ \A j \in 1..(i - 1) : ConnectionDangling(conns[j], avail) = "none"
    ELSE 0

\* The ValueError of validate_section_references: who refers, to what, and
\* the list printed after "Available sections:"
ReferenceError(entity, name, missing, avail) ==
    [ type |-> "ValueError", entity |-> entity, name |-> name,
      missing |-> missing, available |-> Sorted(avail) ]

OtherError(type, what) ==
    [ type |-> type, entity |-> what, name |-> "", missing |-> "",
      available |-> <<>> ]

\* validate_section_references: the errors the validator can raise on a
\* document whose fields passed validation (empty: it returns self).  The
\* biophysics keys are visited in set order, so any dangling key may be the
\* one reported.
SectionReferenceErrors(d) ==
    LET avail == AvailableSections(d)
        si == FirstDangling(d.stimuli, avail)
        ri == FirstDangling(d.recordings, avail)
        ci == FirstDanglingConnection(d.connections, avail)
    IN  IF si # 0
        THEN {ReferenceError("Stimulus", d.stimuli[si].name,
                             d.stimuli[si].section, avail)}
        ELSE IF ri # 0
        THEN {ReferenceError("Recording", d.recordings[ri].name,
                             d.recordings[ri].section, avail)}
        ELSE IF d.biophysics \ avail # {}
        THEN {ReferenceError("Biophysics", "", b, avail) : b \in d.biophysics \ avail}
        ELSE IF d.connectionsNull
        THEN {OtherError("TypeError", "connections")}
        ELSE IF ci # 0
        THEN {ReferenceError(
                 IF ConnectionDangling(d.connections[ci], avail) = "parent"
                 THEN "Connection parent" ELSE "Connection child",
                 "",
                 IF ConnectionDangling(d.connections[ci], avail) = "parent"
                 THEN d.connections[ci].parent ELSE d.connections[ci].child,
                 avail)}
        ELSE {}

\* ExperimentConfig(**document): the errors the construction can raise
\* (empty: it succeeds).  A non-mapping cannot be unpacked, a missing required
\* field fails field validation, and only then the model validator runs.
ExperimentConfigErrors(d) ==
    IF d.kind # "mapping" THEN {OtherError("TypeError", "document")}
    ELSE IF ~d.tstop THEN {OtherError("ValidationError", "simulation.tstop_ms")}
    ELSE SectionReferenceErrors(d)

\* The constructed ExperimentConfig (its reference-carrying fields)
ExperimentConfig(d) ==
    [ sections |-> d.sections, stimuli |-> d.stimuli, recordings |-> d.recordings,
      biophysics |-> d.biophysics,
      connections |-> d.connections,
      directory |-> "results" ]

StimulusRefs == {"soma", "axon"}
RecordingRefs == {"dend", "axon"}
ConnectionRefs == {"soma", "axon"}
BiophysicsRefs == {"soma", "axon"}
SectionOrders == {<<>>, <<"soma">>, <<"dend">>, <<"soma", "dend">>, <<"dend", "soma">>}

\* Field-valid mapping documents with arbitrary section references
ReferenceDocuments ==
    { Document("mapping", TRUE, FALSE, secs, st, rc, bio, cn, cnull) :
        secs \in SectionOrders,
        st \in SeqsUpTo([name : {"stim"}, section : StimulusRefs], MaxDocStimuli),
        rc \in SeqsUpTo([name : {"rec"}, section : RecordingRefs], MaxDocRecordings),
        bio \in SUBSET BiophysicsRefs,
        cn \in SeqsUpTo([parent : ConnectionRefs, child : ConnectionRefs],
                        MaxDocConnections),
        cnull \in {FALSE} }
    \cup
    { Document("mapping", TRUE, FALSE, secs, st, <<>>, bio, <<>>, TRUE) :
        secs \in SectionOrders,
        st \in SeqsUpTo([name : {"stim"}, section : StimulusRefs], MaxDocStimuli),
        bio \in SUBSET BiophysicsRefs }

NotBuilt == [status |-> "pending", config |-> ExperimentConfig(NonMapping("null")),
             error |-> OtherError("none", "")]

CfgInit ==
    /\ doc \in ReferenceDocuments
    /\ built = NotBuilt

CfgIdle ==
    /\ doc = NonMapping("null")
    /\ built = NotBuilt

\* ExperimentConfig(**doc) succeeds
ConstructSucceeds ==
    /\ UNCHANGED nonCfgVars
    /\ built.status = "pending"
    /\ ExperimentConfigErrors(doc) = {}
    /\ built' = [status |-> "ok", config |-> ExperimentConfig(doc),
                 error |-> OtherError("none", "")]
    /\ doc' = doc

\* ExperimentConfig(**doc) raises
ConstructFails ==
    /\ UNCHANGED nonCfgVars
    /\ built.status = "pending"
    /\ \E err \in ExperimentConfigErrors(doc) :
          built' = [status |-> "failed",
                    config |-> ExperimentConfig(NonMapping("null")),
                    error |-> err]
    /\ doc' = doc

RunIdle ==
    /\ config = CHOOSE c \in RunnerConfigs : c.stimuli = <<>> /\ c.recordings = <<>>
                                             /\ Len(c.sections) = 1
    /\ pc = "idle"
    /\ steps = <<>>
    /\ pending = "none"
    /\ retval = EmptyMap
    /\ outcome = NoOutcome
    /\ cleanups = 0
    /\ runnerSections = "own"
    /\ dicts = [own |-> {}, builder |-> {}]
    /\ stimMgr = NoStimulusManager
    /\ recMgr = NoRecordingManager
    /\ engine = EngineDefaults
    /\ output = NoOutput("none")

CfgNext == ConstructSucceeds \/ ConstructFails

-----------------------------------------------------------------------------
(* Configuration loader and validator *)

Returned(v) == [raised |-> FALSE, error |-> "none", value |-> v]

Raised(e) == [raised |-> TRUE, error |-> e, value |-> <<>>]

\* load_yaml_config: open() fails on a missing file, safe_load on bad syntax
LoadYamlConfig(f) ==
    CASE f.state = "missing"   -> Raised("FileNotFoundError")
      [] f.state = "malformed" -> Raised("YAMLError")
      [] OTHER                 -> Returned(f.doc)

\* load_experiment_config: load, then ExperimentConfig(**config_data)
LoadExperimentConfig(f) ==
    LET loaded == LoadYamlConfig(f)
    IN  IF loaded.raised THEN {loaded}
        ELSE IF ExperimentConfigErrors(loaded.value) = {}
        THEN {Returned(ExperimentConfig(loaded.value))}
        ELSE {Raised(e.type) : e \in ExperimentConfigErrors(loaded.value)}

\* What the packaged schema reports on a document: the document must be a
\* mapping, simulation.tstop_ms is required, nseg must be an integer.
SchemaViolations(d) ==
    IF d.kind # "mapping" THEN <<OtherError("SchemaError", "")>>
    ELSE (IF d.tstop THEN <<>> ELSE <<OtherError("SchemaError", "simulation")>>)
         \o (IF d.nsegQuoted
             THEN <<OtherError("SchemaError", "model.morphology.sections.nseg")>>
             ELSE <<>>)

\* validate_with_json_schema: every violation becomes one list entry
ValidateWithJsonSchema(d) == SchemaViolations(d)

\* Mutant of ValidateWithPydantic: the construction error is not caught
ValidateWithPydanticUncaught(d) ==
    IF ExperimentConfigErrors(d) = {} THEN {Returned(<<>>)}
    ELSE {Raised(e.type) : e \in ExperimentConfigErrors(d)}

\* validate_with_pydantic: [] on success, [str(e)] on any Exception
ValidateWithPydantic(d) ==
    IF ExperimentConfigErrors(d) = {} THEN {Returned(<<>>)}
    ELSE {Returned(<<e>>) : e \in ExperimentConfigErrors(d)}

\* validate_experiment_config: the possible outcomes on the stored file
ValidateExperimentConfig(f) ==
    LET loaded == LoadYamlConfig(f)
    IN  IF loaded.raised
        THEN {Returned([file_errors |-> <<OtherError(loaded.error, "Failed to load YAML")>>])}
        ELSE { IF p.raised THEN p
               ELSE Returned([schema_errors |-> ValidateWithJsonSchema(loaded.value),
                              pydantic_errors |-> p.value])
               : p \in ValidateWithPydantic(loaded.value) }

\* Mutant of AllListsEmpty: only the two validation lists are looked at
AllListsEmptyIgnoringFileErrors(results) ==
    \A k \in DOMAIN results \cap {"schema_errors", "pydantic_errors"} :
        Len(results[k]) = 0

\* all(len(errors) == 0 for errors in results.values())
AllListsEmpty(results) == \A k \in DOMAIN results : Len(results[k]) = 0

\* is_valid_config: the possible outcomes, each with the result it was
\* computed from
IsValidConfig(f) ==
    { IF v.raised THEN [raised |-> TRUE, error |-> v.error, value |-> FALSE,
                        results |-> [file_errors |-> <<>>]]
      ELSE [raised |-> FALSE, error |-> "none", value |-> AllListsEmpty(v.value),
            results |-> v.value]
      : v \in ValidateExperimentConfig(f) }

-----------------------------------------------------------------------------
(* Logging *)

\* str.upper() on the level arguments the model uses
Upper(level) ==
    CASE level = "debug"        -> "DEBUG"
      [] level = "warning"      -> "WARNING"
      [] level = "loud"         -> "LOUD"
      [] level = "critical"     -> "CRITICAL"
      [] level = "basic_format" -> "BASIC_FORMAT"
      [] OTHER                  -> level

\* getattr(logging, name, logging.INFO): the upper-case attributes of the
\* logging module are level numbers, except BASIC_FORMAT, a format string
LoggingAttribute(name) ==
    CASE name = "DEBUG"        -> [isNumber |-> TRUE, number |-> 10]
      [] name = "INFO"         -> [isNumber |-> TRUE, number |-> 20]
      [] name = "WARNING"      -> [isNumber |-> TRUE, number |-> 30]
      [] name = "ERROR"        -> [isNumber |-> TRUE, number |-> 40]
      [] name = "WARN"         -> [isNumber |-> TRUE, number |-> 30]
      [] name = "CRITICAL"     -> [isNumber |-> TRUE, number |-> 50]
      [] name = "FATAL"        -> [isNumber |-> TRUE, number |-> 50]
      [] name = "NOTSET"       -> [isNumber |-> TRUE, number |-> 0]
      [] name = "BASIC_FORMAT" -> [isNumber |-> FALSE, number |-> 0]
      [] OTHER                 -> [isNumber |-> TRUE, number |-> 20]

NoLogger == [level |-> 0, handlers |-> <<>>]

\* console_handler / file_handler with handler.setLevel(log_level)
Handler(kind, number) == [kind |-> kind, level |-> number]

\* Mutant of ClearedHandlers: the handlers of earlier calls stay attached
ClearedHandlersKept(handlers) == handlers

\* if logger.handlers: logger.handlers.clear()
ClearedHandlers(handlers) == IF handlers # <<>> THEN <<>> ELSE handlers

\* setup_logging(level, log_file) with a log file that can be opened (or
\* none): Logger.setLevel raises ValueError for a string that names no level,
\* before the handlers are touched; otherwise the handlers are replaced.
SetupLogging(lg, level, withFile) ==
    LET log_level == LoggingAttribute(Upper(level))
    IN  IF ~log_level.isNumber THEN Raised("ValueError")
        ELSE Returned([ level |-> log_level.number,
                        handlers |-> ClearedHandlers(lg.handlers)
                                     \o <<Handler("console", log_level.number)>>
                                     \o (IF withFile
                                         THEN <<Handler("file", log_level.number)>>
                                         ELSE <<>>) ])

\* what log_file can be: absent, a path that can be opened for appending, a
\* path that cannot (logging.FileHandler raises OSError)
LogFiles == {"none", "writable", "unopenable"}

\* setup_logging(level, log_file) as a call: how it ends and the logger it
\* leaves. FileHandler(log_file) is constructed after the console handler
\* was attached, so a failure there leaves the console handler alone.
SetupLoggingCall(lg, level, log_file) ==
    LET out == SetupLogging(lg, level, log_file = "writable")
        console == SetupLogging(lg, level, FALSE)
    IN  IF out.raised
        THEN [raised |-> TRUE, error |-> out.error, logger |-> lg]
        ELSE IF log_file = "unopenable"
        THEN [raised |-> TRUE, error |-> "OSError", logger |-> console.value]
        ELSE [raised |-> FALSE, error |-> "none", logger |-> out.value]

\* record of a setup_logging call: its arguments, how it ended, and the
\* handlers attached when it started
LogCall(level, log_file, raised, error, before) ==
    [ level |-> level, log_file |-> log_file, raised |-> raised,
      error |-> error, before |-> before ]

NoLogCall == LogCall("none", "none", FALSE, "none", <<>>)

-----------------------------------------------------------------------------
(* Files, arguments and entry points *)

ValidDocument ==
    Document("mapping", TRUE, FALSE, <<"soma">>,
             <<[name |-> "stim", section |-> "soma"]>>,
             <<[name |-> "rec", section |-> "soma"]>>, {"soma"}, <<>>, FALSE)

\* Documents stored in the file: a valid one, one without simulation.tstop_ms,
\* one with a stimulus on an undefined section, one with a quoted nseg, an
\* empty file and a top-level list.
ExampleDocuments ==
    { ValidDocument,
      [ValidDocument EXCEPT !.tstop = FALSE],
      [ValidDocument EXCEPT !.stimuli = <<[name |-> "stim", section |-> "axon"]>>],
      [ValidDocument EXCEPT !.nsegQuoted = TRUE],
      NonMapping("null"),
      NonMapping("sequence") }

Files ==
    {[state |-> "missing", doc |-> NonMapping("null")],
     [state |-> "malformed", doc |-> NonMapping("null")]}
    \cup {[state |-> "ok", doc |-> d] : d \in ExampleDocuments}

\* --log-level choices of both subcommands (--verbose stores DEBUG)
LogLevelChoices == {"DEBUG", "INFO", "WARNING", "ERROR"}

\* level strings a caller of the Python functions may pass
LevelArguments == {"INFO", "debug", "ERROR", "loud", "basic_format"}

\* level strings passed to setup_logging directly
SetupLevelArguments == LevelArguments \cup {"warning", "critical"}

Call(entry, argv, command, yamlSuffix, output_dir, log_level) ==
    [ entry |-> entry, argv |-> argv, command |-> command,
      yamlSuffix |-> yamlSuffix, output_dir |-> output_dir, log_level |-> log_level ]

NoCall == Call("none", "none", "none", TRUE, "none", "INFO")

\* Command lines: unparsable, --version, no subcommand, a --log-level value
\* outside the choices, run and validate
CommandLines ==
    { Call("main", a, "none", TRUE, "none", "INFO") : a \in {"unparsable", "version", "bare"} }
    \cup { Call("main", "bad_log_level", c, TRUE, "none", "TRACE") : c \in {"run", "validate"} }
    \cup { Call("main", "subcommand", "run", y, o, l) :
             y \in BOOLEAN, o \in OutputDirs, l \in LogLevelChoices }
    \cup { Call("main", "subcommand", "validate", y, "none", l) :
             y \in BOOLEAN, l \in LogLevelChoices }

\* Direct calls of the two orchestration functions
DirectCalls ==
    { Call("run_experiment", "none", "none", TRUE, o, l) :
         o \in OutputDirs, l \in LevelArguments }
    \cup { Call("validate_experiment", "none", "none", TRUE, "none", l) :
         l \in LevelArguments }

NoOrch ==
    [ dispatched |-> "none", existsAtCheck |-> "unchecked", validation |-> "none",
      loads |-> 0, summary |-> "none", runnerCalls |-> 0, outputCalls |-> 0,
      directory |-> "unset" ]

NoApi == [fn |-> "none", raised |-> FALSE, value |-> FALSE,
          results |-> [file_errors |-> <<>>], fileAtCall |-> "none"]

NoRet == [kind |-> "none", value |-> FALSE, error |-> "none"]

NoExit == [kind |-> "none", code |-> 0]

OrchInit ==
    /\ file \in Files
    /\ call = NoCall
    /\ opc = "idle"
    /\ logger = NoLogger
    /\ logCall = NoLogCall
    /\ orch = NoOrch
    /\ api = NoApi
    /\ ret = NoRet
    /\ exitCode = NoExit

OrchIdle ==
    /\ file = [state |-> "missing", doc |-> NonMapping("null")]
    /\ call = NoCall
    /\ opc = "idle"
    /\ logger = NoLogger
    /\ logCall = NoLogCall
    /\ orch = NoOrch
    /\ api = NoApi
    /\ ret = NoRet
    /\ exitCode = NoExit

-----------------------------------------------------------------------------
(* Command line entry point *)

\* The checks of main() before the try block
PreDispatchRejectingSuffix(command, exists, yamlSuffix) ==
    IF command = "none" THEN "no_command"
    ELSE IF ~exists THEN "not_found"
    ELSE IF ~yamlSuffix THEN "not_found"
    ELSE "dispatch"

\* no subcommand: help and 1; missing file: error and 1; a suffix other than
\* .yaml/.yml only prints a warning
PreDispatch(command, exists, yamlSuffix) ==
    IF command = "none" THEN "no_command"
    ELSE IF ~exists THEN "not_found"
    ELSE "dispatch"

\* return 0 if success else 1; both except clauses return 1
ExitCodeOf(r) == IF r.kind = "returned" /\ r.value THEN 0 ELSE 1

OrchestrationFor(command) ==
    IF command = "run" THEN "run_experiment" ELSE "validate_experiment"

FirstStepOf(fn) == IF fn = "run_experiment" THEN "run_logging" ELSE "val_logging"

\* where control goes when an orchestration function ends
AfterOrchestration(c) == IF c.entry = "main" THEN "main_return" ELSE "done"

ReturnedValue(b) == [kind |-> "returned", value |-> b, error |-> "none"]

Escaped(e) == [kind |-> "raised", value |-> FALSE, error |-> e]

\* the command line is given to main()
StartMain ==
    /\ UNCHANGED nonOrchVars
    /\ opc = "idle"
    /\ call' \in CommandLines
    /\ opc' = "main_parse"
    /\ UNCHANGED <<file, logger, logCall, orch, api, ret, exitCode>>

\* run_experiment / validate_experiment is called from Python
StartDirect ==
    /\ UNCHANGED nonOrchVars
    /\ opc = "idle"
    /\ call' \in DirectCalls
    /\ opc' = FirstStepOf(call'.entry)
    /\ orch' = [orch EXCEPT !.dispatched = call'.entry]
    /\ UNCHANGED <<file, logger, logCall, api, ret, exitCode>>

\* parser.parse_args(): argparse exits with 2 on a bad command line (unknown
\* arguments, a --log-level value outside the choices) and with 0 after
\* --version
ParseArgs ==
    /\ UNCHANGED nonOrchVars
    /\ opc = "main_parse"
    /\ CASE call.argv \in {"unparsable", "bad_log_level"} ->
              exitCode' = [kind |-> "exit", code |-> 2] /\ opc' = "done"
         [] call.argv = "version" ->
              exitCode' = [kind |-> "exit", code |-> 0] /\ opc' = "done"
         [] OTHER ->
              exitCode' = exitCode /\ opc' = "main_checks"
    /\ UNCHANGED <<file, call, logger, logCall, orch, api, ret>>

\* main(): the checks before the try block, then the dispatch
PreDispatchChecks ==
    /\ UNCHANGED nonOrchVars
    /\ opc = "main_checks"
    /\ LET exists == file.state # "missing"
           verdict == PreDispatch(call.command, exists, call.yamlSuffix)
       IN  /\ orch' = [orch EXCEPT
                          !.existsAtCheck = IF call.command = "none" THEN @
                                            ELSE IF exists THEN "yes" ELSE "no",
                          !.dispatched = IF verdict = "dispatch"
                                         THEN OrchestrationFor(call.command) ELSE @]
           /\ IF verdict = "dispatch"
              THEN /\ opc' = FirstStepOf(OrchestrationFor(call.command))
                   /\ exitCode' = exitCode
              ELSE /\ opc' = "done"
                   /\ exitCode' = [kind |-> "returned", code |-> 1]
    /\ UNCHANGED <<file, call, logger, logCall, api, ret>>

\* main(): the value returned after the orchestration function ended
MainReturn ==
    /\ UNCHANGED nonOrchVars
    /\ opc = "main_return"
    /\ exitCode' = [kind |-> "returned", code |-> ExitCodeOf(ret)]
    /\ opc' = "done"
    /\ UNCHANGED <<file, call, logger, logCall, orch, api, ret>>

-----------------------------------------------------------------------------
(* run_experiment *)

\* Mutant of AfterValidation: the validation result is ignored
AfterValidationIgnored(valid) == "run_load"

\* if not is_valid_config(...): report and return False; else load
AfterValidation(valid) == IF valid THEN "run_load" ELSE "run_report"

\* logger = setup_logging(log_level), before the try block
RunLogging ==
    /\ UNCHANGED nonOrchVars
    /\ opc = "run_logging"
    /\ LET out == SetupLogging(logger, call.log_level, FALSE)
       IN  /\ logCall' = LogCall(call.log_level, "none", out.raised, out.error,
                                  logger.handlers)
           /\ IF out.raised
              THEN /\ ret' = Escaped(out.error)
                   /\ opc' = AfterOrchestration(call)
                   /\ logger' = logger
              ELSE /\ logger' = out.value
                   /\ opc' = "run_validate"
                   /\ ret' = ret
    /\ UNCHANGED <<file, call, orch, api, exitCode>>

\* if not is_valid_config(config_file)
RunValidate ==
    /\ UNCHANGED nonOrchVars
    /\ opc = "run_validate"
    /\ \E v \in IsValidConfig(file) :
         IF v.raised
         THEN /\ ret' = ReturnedValue(FALSE)
              /\ opc' = AfterOrchestration(call)
              /\ orch' = orch
         ELSE /\ orch' = [orch EXCEPT !.validation =
                              IF AllListsEmpty(v.results) THEN "passed" ELSE "failed"]
              /\ opc' = AfterValidation(v.value)
              /\ ret' = ret
    /\ UNCHANGED <<file, call, logger, logCall, api, exitCode>>

\* the failure branch: validate again for the log, return False
RunReport ==
    /\ UNCHANGED nonOrchVars
    /\ opc = "run_report"
    /\ \E v \in ValidateExperimentConfig(file) :
         /\ ret' = ReturnedValue(FALSE)
         /\ opc' = AfterOrchestration(call)
    /\ UNCHANGED <<file, call, logger, logCall, orch, api, exitCode>>

\* config = load_experiment_config(config_file); output directory override
RunLoad ==
    /\ UNCHANGED nonOrchVars
    /\ opc = "run_load"
    /\ \E l \in LoadExperimentConfig(file) :
         IF l.raised
         THEN /\ ret' = ReturnedValue(FALSE)
              /\ opc' = AfterOrchestration(call)
              /\ orch' = [orch EXCEPT !.loads = @ + 1]
         ELSE /\ orch' = [orch EXCEPT !.loads = @ + 1,
                                      !.directory = IF call.output_dir # "none"
                                                    THEN call.output_dir
                                                    ELSE l.value.directory]
              /\ opc' = "run_simulate"
              /\ ret' = ret
    /\ UNCHANGED <<file, call, logger, logCall, api, exitCode>>

\* runner = SimulationRunner(config); results = runner.run_simulation():
\* it returns, raises, or the user interrupts the blocking engine call
RunSimulate ==
    /\ UNCHANGED nonOrchVars
    /\ opc = "run_simulate"
    /\ orch' = [orch EXCEPT !.runnerCalls = @ + 1]
    /\ \/ opc' = "run_save_results" /\ ret' = ret
       \/ opc' = AfterOrchestration(call) /\ ret' = ReturnedValue(FALSE)
       \/ opc' = AfterOrchestration(call) /\ ret' = Escaped("KeyboardInterrupt")
    /\ UNCHANGED <<file, call, logger, logCall, api, exitCode>>

\* output_manager.save_results(results)
RunSaveResults ==
    /\ UNCHANGED nonOrchVars
    /\ opc = "run_save_results"
    /\ orch' = [orch EXCEPT !.outputCalls = @ + 1]
    /\ \/ opc' = "run_save_metadata" /\ ret' = ret
       \/ opc' = AfterOrchestration(call) /\ ret' = ReturnedValue(FALSE)
    /\ UNCHANGED <<file, call, logger, logCall, api, exitCode>>

\* output_manager.save_metadata(); return True
RunSaveMetadata ==
    /\ UNCHANGED nonOrchVars
    /\ opc = "run_save_metadata"
    /\ orch' = [orch EXCEPT !.outputCalls = @ + 1]
    /\ opc' = AfterOrchestration(call)
    /\ \/ ret' = ReturnedValue(TRUE)
       \/ ret' = ReturnedValue(FALSE)
    /\ UNCHANGED <<file, call, logger, logCall, api, exitCode>>

-----------------------------------------------------------------------------
(* validate_experiment *)

\* Mutant of SummaryFailureResult: a failed summary load keeps all_valid
SummaryFailureKeepsValid(all_valid) == all_valid

\* except Exception in the summary: warning, return False
SummaryFailureResult(all_valid) == FALSE

\* logger = setup_logging(log_level), before the try block
ValLogging ==
    /\ UNCHANGED nonOrchVars
    /\ opc = "val_logging"
    /\ LET out == SetupLogging(logger, call.log_level, FALSE)
       IN  /\ logCall' = LogCall(call.log_level, "none", out.raised, out.error,
                                  logger.handlers)
           /\ IF out.raised
              THEN /\ ret' = Escaped(out.error)
                   /\ opc' = AfterOrchestration(call)
                   /\ logger' = logger
              ELSE /\ logger' = out.value
                   /\ opc' = "val_validate"
                   /\ ret' = ret
    /\ UNCHANGED <<file, call, orch, api, exitCode>>

\* validation_results = validate_experiment_config(config_file); the loop
\* computing all_valid; return all_valid when it is False
ValValidate ==
    /\ UNCHANGED nonOrchVars
    /\ opc = "val_validate"
    /\ \E v \in ValidateExperimentConfig(file) :
         IF v.raised
         THEN /\ ret' = ReturnedValue(FALSE)
              /\ opc' = AfterOrchestration(call)
              /\ orch' = orch
         ELSE LET all_valid == \A k \in DOMAIN v.value : v.value[k] = <<>>
              IN  /\ orch' = [orch EXCEPT !.validation =
                                  IF all_valid THEN "passed" ELSE "failed"]
                  /\ IF all_valid
                     THEN opc' = "val_summary" /\ ret' = ret
                     ELSE opc' = AfterOrchestration(call)
                          /\ ret' = ReturnedValue(all_valid)
    /\ UNCHANGED <<file, call, logger, logCall, api, exitCode>>

\* if all_valid: the typed load for the summary; return all_valid
ValSummary ==
    /\ UNCHANGED nonOrchVars
    /\ opc = "val_summary"
    /\ \E l \in LoadExperimentConfig(file) :
         IF l.raised
         THEN /\ orch' = [orch EXCEPT !.loads = @ + 1, !.summary = "failed"]
              /\ ret' = ReturnedValue(SummaryFailureResult(TRUE))
         ELSE /\ orch' = [orch EXCEPT !.loads = @ + 1, !.summary = "ok"]
              /\ ret' = ReturnedValue(TRUE)
    /\ opc' = AfterOrchestration(call)
    /\ UNCHANGED <<file, call, logger, logCall, api, exitCode>>

-----------------------------------------------------------------------------
(* Direct validator calls, the environment, and the end of a call *)

\* validate_experiment_config(path) called from Python
ApiValidateExperimentConfig ==
    /\ UNCHANGED nonOrchVars
    /\ opc = "idle"
    /\ \E v \in ValidateExperimentConfig(file) :
         api' = [ fn |-> "validate_experiment_config", raised |-> v.raised,
                  value |-> FALSE,
                  results |-> IF v.raised THEN [file_errors |-> <<>>] ELSE v.value,
                  fileAtCall |-> file.state ]
    /\ opc' = "done"
    /\ UNCHANGED <<file, call, logger, logCall, orch, ret, exitCode>>

\* is_valid_config(path) called from Python
ApiIsValidConfig ==
    /\ UNCHANGED nonOrchVars
    /\ opc = "idle"
    /\ \E v \in IsValidConfig(file) :
         api' = [ fn |-> "is_valid_config", raised |-> v.raised,
                  value |-> v.value, results |-> v.results,
                  fileAtCall |-> file.state ]
    /\ opc' = "done"
    /\ UNCHANGED <<file, call, logger, logCall, orch, ret, exitCode>>

\* setup_logging(level, log_file) called from Python
ApiSetupLogging ==
    /\ UNCHANGED nonOrchVars
    /\ opc = "idle"
    /\ \E level \in SetupLevelArguments, log_file \in LogFiles :
         LET out == SetupLoggingCall(logger, level, log_file)
         IN  /\ logger' = out.logger
             /\ logCall' = LogCall(level, log_file, out.raised, out.error,
                                   logger.handlers)
    /\ opc' = "done"
    /\ UNCHANGED <<file, call, orch, api, ret, exitCode>>

\* Another process replaces, removes or creates the configuration file
\* while a call is in progress
FileChanges ==
    /\ UNCHANGED nonOrchVars
    /\ opc \notin {"idle", "done"}
    /\ file' \in Files \ {file}
    /\ UNCHANGED <<call, opc, logger, logCall, orch, api, ret, exitCode>>

\* The call is over; the next one starts from the process-wide state left
\* behind (the logger) and any file
Finish ==
    /\ UNCHANGED nonOrchVars
    /\ opc = "done"
    /\ opc' = "idle"
    /\ file' \in Files
    /\ call' = NoCall
    /\ orch' = NoOrch
    /\ api' = NoApi
    /\ ret' = NoRet
    /\ exitCode' = NoExit
    /\ logger' = logger
    /\ logCall' = logCall

OrchNext ==
    \/ StartMain
    \/ StartDirect
    \/ ParseArgs
    \/ PreDispatchChecks
    \/ MainReturn
    \/ RunLogging
    \/ RunValidate
    \/ RunReport
    \/ RunLoad
    \/ RunSimulate
    \/ RunSaveResults
    \/ RunSaveMetadata
    \/ ValLogging
    \/ ValValidate
    \/ ValSummary
    \/ ApiValidateExperimentConfig
    \/ ApiIsValidConfig
    \/ ApiSetupLogging
    \/ FileChanges
    \/ Finish

-----------------------------------------------------------------------------
(* Model builder: biophysics of one section *)

\* hh_defaults of apply_hh_parameters
HhDefaults ==
    [gnabar_hh |-> "0.12", gkbar_hh |-> "0.036", gl_hh |-> "0.0003", el_hh |-> "-54.3"]

\* pas_defaults of apply_passive_parameters
PasDefaults == [g_pas |-> "0.001", e_pas |-> "-65.0"]

\* mechanisms of the configurations: hh, pas and one other mechanism
MechanismNames == {"hh", "pas", "km"}

\* mechanisms the engine always has; inserting another one may fail
BuiltinMechanisms == {"hh", "pas"}

\* parameter names that configurations give a mechanism: the names of its
\* table and a bare name for hh and pas, two names for the other mechanism
ParamNamesOf(mech) ==
    CASE mech = "hh"  -> DOMAIN HhDefaults \cup {"gnabar"}
      [] mech = "pas" -> DOMAIN PasDefaults \cup {"g"}
      [] OTHER        -> {"taur", "L"}

\* the value a configuration gives each parameter name
ConfiguredValues ==
    [ gnabar_hh |-> "0.2", gkbar_hh |-> "0.05", gl_hh |-> "0.001", el_hh |-> "-60.0",
      gnabar |-> "0.3", g_pas |-> "0.002", e_pas |-> "-70.0", g |-> "0.004",
      taur |-> "5.0", L |-> "40.0" ]

\* Dict[str, float]: the parameters configured for one mechanism
ParamDicts(mech) ==
    {[n \in S |-> ConfiguredValues[n]] : S \in SUBSET ParamNamesOf(mech)}

\* the keys of config.mechanisms in dict order
MechanismOrders ==
    { o \in UNION {[1..n -> MechanismNames] : n \in 0..Cardinality(MechanismNames)} :
        \A i, j \in DOMAIN o : i # j => o[i] # o[j] }

ParamChoices(order, mech) ==
    IF mech \in Range(order) THEN ParamDicts(mech) ELSE {EmptyMap}

\* BiophysicsConfig: Ra, cm and the mechanisms, in the order o, with their
\* parameters
BiophysicsConfigsIn(o) ==
    { [ Ra |-> "100.0", cm |-> "1.0", order |-> o,
        mechanisms |-> [m \in Range(o) |->
                          CASE m = "hh" -> a [] m = "pas" -> b [] OTHER -> c] ] :
        a \in ParamChoices(o, "hh"), b \in ParamChoices(o, "pas"),
        c \in ParamChoices(o, "km") }

BiophysicsConfigs == UNION {BiophysicsConfigsIn(o) : o \in MechanismOrders}

\* a section as create_section leaves it: Ra and cm of the engine, L configured
FreshSection == [Ra |-> "engine-default", cm |-> "engine-default", L |-> "20.0"]

\* attributes a mechanism adds to the section, with the engine's values
MechanismAttributes(mech) ==
    CASE mech = "hh"  -> DOMAIN HhDefaults
      [] mech = "pas" -> DOMAIN PasDefaults
      [] OTHER        -> {"taur_km"}

\* section.insert(mech_name)
Inserted(sec, mech) ==
    [ a \in DOMAIN sec \cup MechanismAttributes(mech) |->
        IF a \in DOMAIN sec THEN sec[a] ELSE "engine-default" ]

\* Mutant of ParameterValue: the configured value is ignored
ParameterValueDefaultOnly(params, name, defaults) == defaults[name]

\* value = params.get(param_name, default_value)
ParameterValue(params, name, defaults) ==
    IF name \in DOMAIN params THEN params[name] ELSE defaults[name]

\* Mutant of AppliedNames: configured names outside the table are applied too
AppliedNamesWithConfigured(defaults, params) == DOMAIN defaults \cup DOMAIN params

\* for param_name, default_value in defaults.items(): the names assigned
AppliedNames(defaults, params) == DOMAIN defaults

\* the loop of apply_hh_parameters / apply_passive_parameters:
\* setattr(section, param_name, value) for every name of the table
ApplyTable(sec, defaults, params) ==
    [ a \in DOMAIN sec \cup AppliedNames(defaults, params) |->
        IF a \in AppliedNames(defaults, params)
        THEN ParameterValue(params, a, defaults)
        ELSE sec[a] ]

\* f"{param_name}_{mech_name}" for the parameters of the other mechanism
FullParamName == [taur |-> "taur_km", L |-> "L_km"]

\* apply_generic_parameters: the attribute a parameter is assigned to
GenericTarget(sec, param) ==
    IF FullParamName[param] \in DOMAIN sec THEN FullParamName[param] ELSE param

ApplyGeneric(sec, params) ==
    [ a \in DOMAIN sec |->
        IF \E q \in DOMAIN params : GenericTarget(sec, q) = a
        THEN params[CHOOSE q \in DOMAIN params : GenericTarget(sec, q) = a]
        ELSE sec[a] ]

\* setattr calls of one parameter method, as (mechanism, attribute) pairs
Writes(mech, names) == {[mech |-> mech, name |-> n] : n \in names}

CurrentMechanism == biophysics.order[mechIndex]

BioInit ==
    /\ biophysics \in BiophysicsConfigs
    /\ section = FreshSection
    /\ bpc = "cable"
    /\ mechIndex = 0
    /\ writes = {}
    /\ bioError = "none"

BioIdle ==
    /\ biophysics = [Ra |-> "100.0", cm |-> "1.0", order |-> <<>>, mechanisms |-> EmptyMap]
    /\ section = FreshSection
    /\ bpc = "cable"
    /\ mechIndex = 0
    /\ writes = {}
    /\ bioError = "none"

\* the loop over config.mechanisms.items() moves on, or the method returns
NextMechanism ==
    IF mechIndex < Len(biophysics.order)
    THEN bpc' = "insert" /\ mechIndex' = mechIndex + 1
    ELSE bpc' = "done" /\ mechIndex' = mechIndex

\* section.Ra = config.Ra; section.cm = config.cm
SetCable ==
    /\ UNCHANGED nonBioVars
    /\ bpc = "cable"
    /\ section' = Put(Put(section, "Ra", biophysics.Ra), "cm", biophysics.cm)
    /\ NextMechanism
    /\ UNCHANGED <<biophysics, writes, bioError>>

\* section.insert(mech_name): the engine raises for a mechanism it lacks
InsertMechanism ==
    /\ UNCHANGED nonBioVars
    /\ bpc = "insert"
    /\ \/ /\ section' = Inserted(section, CurrentMechanism)
          /\ bpc' = "params"
          /\ bioError' = bioError
       \/ /\ CurrentMechanism \notin BuiltinMechanisms
          /\ bpc' = "raised"
          /\ bioError' = "insert"
          /\ section' = section
    /\ UNCHANGED <<biophysics, mechIndex, writes>>

\* if mech_name == "hh": self.apply_hh_parameters(section, params)
ApplyHhParameters ==
    /\ UNCHANGED nonBioVars
    /\ bpc = "params"
    /\ CurrentMechanism = "hh"
    /\ LET params == biophysics.mechanisms["hh"]
       IN  /\ section' = ApplyTable(section, HhDefaults, params)
           /\ writes' = writes \cup Writes("hh", AppliedNames(HhDefaults, params))
    /\ NextMechanism
    /\ UNCHANGED <<biophysics, bioError>>

\* elif mech_name == "pas": self.apply_passive_parameters(section, params)
ApplyPassiveParameters ==
    /\ UNCHANGED nonBioVars
    /\ bpc = "params"
    /\ CurrentMechanism = "pas"
    /\ LET params == biophysics.mechanisms["pas"]
       IN  /\ section' = ApplyTable(section, PasDefaults, params)
           /\ writes' = writes \cup Writes("pas", AppliedNames(PasDefaults, params))
    /\ NextMechanism
    /\ UNCHANGED <<biophysics, bioError>>

\* else: self.apply_generic_parameters(section, mech_name, params)
ApplyGenericParameters ==
    /\ UNCHANGED nonBioVars
    /\ bpc = "params"
    /\ CurrentMechanism \notin {"hh", "pas"}
    /\ LET params == biophysics.mechanisms[CurrentMechanism]
       IN  /\ section' = ApplyGeneric(section, params)
           /\ writes' = writes \cup
                  Writes(CurrentMechanism,
                         {GenericTarget(section, q) : q \in DOMAIN params})
    /\ NextMechanism
    /\ UNCHANGED <<biophysics, bioError>>

BioNext ==
    \/ SetCable
    \/ InsertMechanism
    \/ ApplyHhParameters
    \/ ApplyPassiveParameters
    \/ ApplyGenericParameters

-----------------------------------------------------------------------------
(* The four specifications; each leaves the other parts at rest *)

OrchSpecInit == RunIdle /\ CfgIdle /\ OrchInit /\ BioIdle

BuilderInit == RunIdle /\ CfgIdle /\ OrchIdle /\ BioInit

SpecBuilder == BuilderInit /\ [][BioNext]_vars

SpecOrch == OrchSpecInit /\ [][OrchNext]_vars

-----------------------------------------------------------------------------
Init == RunInit /\ CfgIdle /\ OrchIdle /\ BioIdle

ConfigInit == RunIdle /\ CfgInit /\ OrchIdle /\ BioIdle

SpecConfig == ConfigInit /\ [][CfgNext]_vars


Next ==
    \/ NewRunner
    \/ CallRunSimulation
    \/ SetupModel
    \/ SetupStimuli
    \/ SetupRecordings
    \/ ConfigureSimulation
    \/ InitializeEngine
    \/ RunEngine
    \/ GetResults
    \/ Cleanup
    \/ OverrideOutputDir
    \/ SaveOutputs

Spec == Init /\ [][Next]_vars

-----------------------------------------------------------------------------
(* Claims about the SimulationRunner (checked under Spec) *)

PipelineOrder ==
    <<"build", "stimuli", "recordings", "configure", "initialize", "run", "extract">>

\* the pipeline steps (cleanup excluded) started so far in this call
PipelineSteps == SelectSeq(steps, LAMBDA st : st # "cleanup")

Observed == outcome.kind # "none"

\* C1: when a step of run_simulation raises, cleanup has run exactly once by
\* the time the caller observes the failure, the caller observes the error of
\* the failing step and no result; cleanup never runs twice in a call.
C1_CleanupOnceThenPropagate ==
    /\ cleanups <= 1
    /\ Observed => cleanups = 1
    /\ (pending # "none" /\ ~Observed) => pc = "cleanup" /\ cleanups = 0
    /\ (pending # "none" /\ Observed) =>
          /\ outcome.kind = "raised"
          /\ outcome.error = PipelineSteps[Len(PipelineSteps)]
          /\ outcome.results = EmptyMap
    /\ outcome.kind = "raised" => pending # "none"

\* C1 witness: the build step failed before any manager existed, and the
\* caller observed that failure after the cleanup.
C1_Witness ==
    /\ outcome.kind = "raised"
    /\ outcome.error = "build"
    /\ ~stimMgr.exists
    /\ ~recMgr.exists
    /\ cleanups = 1

\* the section/stimulus/recording state of the runner is empty
StateCleared ==
    /\ dicts[runnerSections] = {}
    /\ stimMgr.stimuli = <<>>
    /\ recMgr.recording_vectors = EmptyMap
    /\ RecordingConfigs(recMgr, config) = <<>>

\* C2: between runs (after a run ended by returning or by failing at any
\* step, and when the next run is entered) the runner's section mapping is
\* empty, its stimulus manager holds no stimuli and its recording manager holds
\* no probes and an empty configuration list.
C2_StateClearedBetweenRuns ==
    pc \in {"idle", "build"} => StateCleared

\* C2 witness: a run on a runner that already completed an earlier run (its
\* managers exist) failed in the build step, with stimuli and recordings
\* configured.
C2_Witness ==
    /\ pc = "idle"
    /\ outcome.kind = "raised"
    /\ outcome.error = "build"
    /\ stimMgr.exists
    /\ recMgr.exists
    /\ config.stimuli # <<>>
    /\ config.recordings # <<>>
    /\ StateCleared

\* C3: the steps of one call are started in the fixed order build, stimuli,
\* recordings, configure, initialize, run, extract, each at most once and only
\* while no step has failed; cleanup is the only step after a failure and the
\* last step of every call; the engine is initialized only under the
\* configured dt, tstop, temperature, v_init = -65.0 and fixed-step mode.
C3_FixedOrder ==
    /\ \E k \in 0..Len(PipelineOrder) : PipelineSteps = Prefix(PipelineOrder, k)
    /\ \A i \in 1..Len(steps) : steps[i] = "cleanup" => i = Len(steps)
    /\ pc \notin {"idle", "cleanup"} =>
          /\ pending = "none"
          /\ steps = PipelineSteps
          /\ pc = PipelineOrder[Len(steps) + 1]
    /\ pending # "none" => pc \in {"cleanup", "idle"}
    /\ Observed => steps[Len(steps)] = "cleanup"
    /\ outcome.kind = "returned" => PipelineSteps = PipelineOrder
    /\ (\E i \in 1..Len(steps) : steps[i] = "initialize") =>
          /\ engine.dt = config.dt_ms
          /\ engine.tstop = config.tstop_ms
          /\ engine.v_init = "-65.0"
          /\ engine.celsius = config.temperature_celsius
          /\ engine.cvode_active = "0"

\* C3 witness: a call that ran all seven steps and then cleanup
C3_Witness ==
    /\ outcome.kind = "returned"
    /\ steps = PipelineOrder \o <<"cleanup">>
    /\ engine.phase = "ran"

-----------------------------------------------------------------------------
(* Claims about ExperimentConfig (checked under SpecConfig) *)

\* every section name the document refers to
ReferencedSections(d) ==
    {d.stimuli[i].section : i \in DOMAIN d.stimuli}
    \cup {d.recordings[i].section : i \in DOMAIN d.recordings}
    \cup d.biophysics
    \cup {d.connections[i].parent : i \in DOMAIN d.connections}
    \cup {d.connections[i].child : i \in DOMAIN d.connections}

IsSortedListOf(seq, S) ==
    /\ Range(seq) = S
    /\ Len(seq) = Cardinality(S)
    /\ \A i, j \in DOMAIN seq : i < j => NameRank[seq[i]] < NameRank[seq[j]]

\* C9: a constructed ExperimentConfig refers only to sections of its
\* morphology (stimuli, recordings, biophysics keys, both ends of every
\* connection); a document with a dangling reference fails construction with a
\* message naming a missing section it refers to and the sorted list of the
\* valid section names.
C9_ReferenceIntegrity ==
    /\ built.status = "ok" =>
          ReferencedSections(built.config) \subseteq Range(built.config.sections)
    /\ (built.status # "pending"
        /\ ~(ReferencedSections(doc) \subseteq AvailableSections(doc))) =>
          /\ built.status = "failed"
          /\ built.error.type = "ValueError"
          /\ built.error.missing \in ReferencedSections(doc) \ AvailableSections(doc)
          /\ IsSortedListOf(built.error.available, AvailableSections(doc))

\* C9 witness: a stimulus on 'axon' with only 'soma' defined is refused,
\* naming 'axon' and ['soma']
C9_Witness ==
    /\ built.status = "failed"
    /\ doc.sections = <<"soma">>
    /\ Len(doc.stimuli) = 1
    /\ doc.stimuli[1].section = "axon"
    /\ built.error.missing = "axon"
    /\ built.error.available = <<"soma">>

-----------------------------------------------------------------------------
(* Claims about orchestration, validator and command line (under SpecOrch) *)

InRunExperiment == orch.dispatched = "run_experiment"

InValidateExperiment == orch.dispatched = "validate_experiment"

\* C4: no exception escapes run_experiment, whichever stage fails (a user
\* interrupt, which the program leaves to the command line, set aside): the
\* call ends by returning a boolean.
C4_NoExceptionEscapes ==
    ~(InRunExperiment /\ ret.kind = "raised" /\ ret.error # "KeyboardInterrupt")

\* C5: in run_experiment a validation that reported an error leads to the
\* result False with no typed load, no runner and no output manager call; the
\* runner is only invoked after a validation with all lists empty.
C5_NoRunAfterFailedValidation ==
    InRunExperiment =>
      /\ orch.validation = "failed" =>
            /\ orch.loads = 0
            /\ orch.runnerCalls = 0
            /\ orch.outputCalls = 0
            /\ opc = "run_report" \/ ret = ReturnedValue(FALSE)
      /\ (orch.loads > 0 \/ orch.runnerCalls > 0 \/ orch.outputCalls > 0) =>
            orch.validation = "passed"

\* C5 witness: run_experiment returned False after a failed validation
C5_Witness ==
    /\ InRunExperiment
    /\ orch.validation = "failed"
    /\ ret = ReturnedValue(FALSE)
    /\ opc = "done"

\* C6: validate_experiment returns True exactly when every validation list
\* was empty and the summary load succeeded; the summary load is attempted
\* only after a fully passed validation.
C6_ValidateExperimentResult ==
    InValidateExperiment =>
      /\ ret.kind = "returned" =>
            (ret.value <=> (orch.validation = "passed" /\ orch.summary = "ok"))
      /\ orch.loads > 0 => orch.validation = "passed"
      /\ orch.summary # "none" => orch.loads = 1

\* C6 witness: validation passed, the summary load failed, the result is False
C6_Witness ==
    /\ InValidateExperiment
    /\ orch.validation = "passed"
    /\ orch.summary = "failed"
    /\ ret = ReturnedValue(FALSE)

\* C7: validate_experiment_config returns the single key file_errors exactly
\* when the raw document could not be loaded and otherwise exactly the keys
\* schema_errors and pydantic_errors; is_valid_config is True exactly when the
\* file loads, the schema reports nothing and the construction succeeds, hence
\* False whenever the document cannot be loaded.
C7_ValidatorResultShape ==
    /\ (api.fn # "none" /\ ~api.raised) =>
          /\ api.fileAtCall # "ok" => DOMAIN api.results = {"file_errors"}
          /\ api.fileAtCall = "ok" =>
                DOMAIN api.results = {"schema_errors", "pydantic_errors"}
    /\ (api.fn = "is_valid_config" /\ ~api.raised) =>
          /\ api.value <=> \A k \in DOMAIN api.results : api.results[k] = <<>>
          /\ api.value <=> /\ file.state = "ok"
                           /\ SchemaViolations(file.doc) = <<>>
                           /\ ExperimentConfigErrors(file.doc) = {}
          /\ api.fileAtCall # "ok" => ~api.value

\* C7 witness: is_valid_config on a missing file is False, from file_errors
C7_Witness ==
    /\ api.fn = "is_valid_config"
    /\ api.fileAtCall = "missing"
    /\ DOMAIN api.results = {"file_errors"}
    /\ api.results["file_errors"] # <<>>
    /\ ~api.value

\* C8: validate_experiment_config and is_valid_config never raise, whatever
\* the file holds; a failed load and a failed construction are list entries.
C8_ValidatorNeverRaises ==
    api.fn # "none" =>
      /\ ~api.raised
      /\ file.state # "ok" => api.results["file_errors"] # <<>>
      /\ (file.state = "ok" /\ ExperimentConfigErrors(file.doc) # {}) =>
            Len(api.results["pydantic_errors"]) = 1

\* C8 witness: an empty document is reported through pydantic_errors
C8_Witness ==
    /\ api.fn = "validate_experiment_config"
    /\ ~api.raised
    /\ file.state = "ok"
    /\ file.doc.kind = "null"
    /\ api.results["pydantic_errors"] # <<>>

\* C10: main returns 0 exactly when a subcommand was dispatched and its
\* orchestration function returned True; without a subcommand or with a missing
\* file it returns 1 and dispatches nothing; with a subcommand and an existing
\* file it dispatches whatever the file's suffix.
C10_ExitCode ==
    call.entry = "main" =>
      /\ orch.dispatched # "none" =>
            call.command # "none" /\ orch.existsAtCheck = "yes"
      /\ exitCode.kind = "returned" =>
            /\ exitCode.code \in {0, 1}
            /\ exitCode.code = 0 <=>
                  (orch.dispatched # "none" /\ ret = ReturnedValue(TRUE))
            /\ (call.command = "none" \/ orch.existsAtCheck = "no") =>
                  /\ exitCode.code = 1
                  /\ orch.dispatched = "none"
                  /\ ret.kind = "none"
                  /\ orch.loads = 0 /\ orch.runnerCalls = 0
            /\ (call.command = "run" /\ orch.existsAtCheck = "yes") =>
                  orch.dispatched = "run_experiment"
            /\ (call.command = "validate" /\ orch.existsAtCheck = "yes") =>
                  orch.dispatched = "validate_experiment"

\* C10 witness: a run on a file without .yaml/.yml suffix ends with code 0
C10_Witness ==
    /\ call.entry = "main"
    /\ call.command = "run"
    /\ ~call.yamlSuffix
    /\ exitCode = [kind |-> "returned", code |-> 0]

\* C11: every run of the command line entry point ends with exit code 0 or 1,
\* whatever the command line (unparsable arguments and an invalid --log-level
\* value included) and whatever fails during dispatch (a user interrupt
\* included), and no error leaves main uncaught.
C11_ExitCodeZeroOrOne ==
    (call.entry = "main" /\ opc = "done") =>
      /\ exitCode.kind \in {"returned", "exit"}
      /\ exitCode.code \in {0, 1}

-----------------------------------------------------------------------------
(* Claims about setup_logging (under SpecOrch) *)

\* the level number a call's level argument resolves to in the code
ResolvedLevel(level) == LoggingAttribute(Upper(level)).number

\* C12: the sinks attached to the process-wide logger are determined by the
\* most recent setup_logging call alone. If it returned they are exactly one
\* console sink plus one file sink if and only if log_file was given; if it
\* failed opening the log file there is exactly the console sink of that
\* call; if it failed on the level the sinks are those attached before it.
\* A call that got past the level never leaves a sink of an earlier call.
C12_SinksOfLastCall ==
    logCall.level # "none" =>
      CASE ~logCall.raised ->
             logger.handlers =
                <<Handler("console", ResolvedLevel(logCall.level))>>
                \o (IF logCall.log_file # "none"
                    THEN <<Handler("file", ResolvedLevel(logCall.level))>>
                    ELSE <<>>)
        [] logCall.raised /\ logCall.error = "OSError" ->
             logger.handlers = <<Handler("console", ResolvedLevel(logCall.level))>>
        [] OTHER ->
             logger.handlers = logCall.before

\* C12 witness: a call without log_file returned on a logger that had a
\* console and a file sink from an earlier call at another level
C12_Witness ==
    /\ ~logCall.raised
    /\ logCall.log_file = "none"
    /\ Len(logCall.before) = 2
    /\ logCall.before[1].level # ResolvedLevel(logCall.level)
    /\ Len(logger.handlers) = 1

\* C12 as stated, for calls whose level argument names a level: after any
\* sequence of setup_logging calls the logger has one console sink, plus one
\* file sink exactly when the last call was given log_file.
C12_SinksExactlyLastCall ==
    (logCall.level # "none" /\ logCall.error # "ValueError") =>
      [i \in DOMAIN logger.handlers |-> logger.handlers[i].kind] =
         IF logCall.log_file # "none" THEN <<"console", "file">> ELSE <<"console">>

\* the four level names of the interface
FourLevels == [DEBUG |-> 10, INFO |-> 20, WARNING |-> 30, ERROR |-> 40]

\* C13: setup_logging resolves DEBUG, INFO, WARNING, ERROR in any letter case
\* to that level and every other string to INFO; the logger and all sinks
\* then carry that level and the call does not fail (a log file that cannot
\* be opened set aside).
C13_LevelResolution ==
    (logCall.level # "none" /\ logCall.log_file # "unopenable") =>
      LET expected == IF Upper(logCall.level) \in DOMAIN FourLevels
                      THEN FourLevels[Upper(logCall.level)] ELSE 20
      IN  /\ ~logCall.raised
          /\ logger.level = expected
          /\ \A i \in DOMAIN logger.handlers : logger.handlers[i].level = expected

-----------------------------------------------------------------------------
(* Claims about the configuration, the builder's parameters, the probes and
   the results (under Spec and SpecBuilder) *)

\* C14: from the loaded ExperimentConfig to the end of run_experiment, the
\* only step that changes the configuration is the output directory override,
\* which is taken only when output_dir was supplied and only sets
\* outputs.directory to it; builder, stimulus manager, recording manager,
\* runner (cleanup included) and output manager leave stimuli, recordings,
\* model and every other field as they were.
C14_ConfigFrame ==
    [][ config' # config =>
          /\ output.override # "none"
          /\ ~output.applied /\ output'.applied
          /\ config' = [config EXCEPT !.directory = output.override] ]_vars

\* C14 witness: with an override and two recordings, the run returned, the
\* recording manager gave up the list it shared with the configuration, the
\* results were saved in the override directory and the lists are intact
C14_Witness ==
    /\ output.override = "out"
    /\ output.saved = "out"
    /\ config.directory = "out"
    /\ outcome.kind = "returned"
    /\ Len(config.recordings) = 2
    /\ config.stimuli # <<>>
    /\ recMgr.exists /\ recMgr.configsRef = "own"
    /\ RecordingConfigs(recMgr, config) = <<>>

\* the loop over the mechanisms has finished the i-th mechanism
Applied(i) == i < mechIndex \/ (i = mechIndex /\ bpc = "done")

\* the default tables as the specification states them
StatedDefaults(mech) ==
    IF mech = "hh"
    THEN [gnabar_hh |-> "0.12", gkbar_hh |-> "0.036", gl_hh |-> "0.0003", el_hh |-> "-54.3"]
    ELSE [g_pas |-> "0.001", e_pas |-> "-65.0"]

\* C15: once the builder has applied hh (resp. pas) to the section, each of
\* gnabar_hh, gkbar_hh, gl_hh, el_hh (resp. g_pas, e_pas) has the configured
\* value when that name is configured and otherwise its default 0.12, 0.036,
\* 0.0003, -54.3 (resp. 0.001, -65.0).
C15_ConfiguredOrDefault ==
    \A i \in DOMAIN biophysics.order :
       (Applied(i) /\ biophysics.order[i] \in {"hh", "pas"}) =>
          LET mech == biophysics.order[i]
              params == biophysics.mechanisms[mech]
          IN  \A name \in DOMAIN StatedDefaults(mech) :
                 /\ name \in DOMAIN section
                 /\ section[name] = IF name \in DOMAIN params
                                     THEN params[name]
                                     ELSE StatedDefaults(mech)[name]

\* C15 witness: only gnabar_hh = 0.2 is configured for hh; the section has
\* gnabar_hh = 0.2 and the other three at their defaults
C15_Witness ==
    /\ bpc = "done"
    /\ biophysics.order = <<"hh">>
    /\ DOMAIN biophysics.mechanisms["hh"] = {"gnabar_hh"}
    /\ section["gnabar_hh"] = "0.2"
    /\ section["gkbar_hh"] = "0.036"
    /\ section["gl_hh"] = "0.0003"
    /\ section["el_hh"] = "-54.3"

\* C19: the parameter methods of hh and pas assign only the names of the
\* mechanism's default table, all of them (four for hh, two for pas); a
\* configured name outside the table, such as a bare gnabar, is never
\* assigned, creates no attribute and raises nothing: the attributes outside
\* the tables keep the values they had, and the only failure is the insertion
\* of a mechanism other than hh and pas.
C19_OnlyTableNames ==
    /\ \A w \in writes :
          w.mech \in {"hh", "pas"} => w.name \in DOMAIN StatedDefaults(w.mech)
    /\ \A i \in DOMAIN biophysics.order :
          (Applied(i) /\ biophysics.order[i] \in {"hh", "pas"}) =>
             {w.name : w \in {x \in writes : x.mech = biophysics.order[i]}} =
                DOMAIN StatedDefaults(biophysics.order[i])
    /\ {"gnabar", "g"} \cap DOMAIN section = {}
    /\ bpc # "cable" =>
          section["Ra"] = biophysics.Ra /\ section["cm"] = biophysics.cm
    /\ ("km" \notin {w.mech : w \in writes}) => section["L"] = FreshSection["L"]
    /\ bioError # "none" =>
          bioError = "insert" /\ CurrentMechanism \notin {"hh", "pas"}

\* C19 witness: hh configured with a bare gnabar and pas with a bare g were
\* both applied without error and without those attributes
C19_Witness ==
    /\ bpc = "done"
    /\ biophysics.order = <<"hh", "pas">>
    /\ "gnabar" \in DOMAIN biophysics.mechanisms["hh"]
    /\ "gnabar_hh" \notin DOMAIN biophysics.mechanisms["hh"]
    /\ "g" \in DOMAIN biophysics.mechanisms["pas"]
    /\ section["gnabar_hh"] = "0.12"
    /\ bioError = "none"
    /\ Cardinality(writes) = Cardinality(DOMAIN HhDefaults) + Cardinality(DOMAIN PasDefaults)

\* C16: when the build step failed after creating compartments, then once
\* run_simulation has propagated the error neither the runner nor its builder
\* still refers to a compartment: the mapping the failed build filled is
\* empty.
C16_NoPartialSections ==
    (outcome.kind = "raised" /\ outcome.error = "build") =>
       /\ dicts[runnerSections] = {}
       /\ dicts["builder"] = {}

\* the probe create_recording binds for a Recording, before any sample
ProbeOf(rc) ==
    [bound |-> ReferenceOf(rc.variable), section |-> rc.section, data |-> "empty"]

\* C17: after setup_recordings succeeded on the n configured Recordings, the
\* manager holds n probes, one per Recording, and get_recording_data returns
\* exactly n + 1 entries: 'time' with the clock probe and every Recording's
\* name with that Recording's own probe.
C17_OneProbePerRecording ==
    (pc = "configure" /\ recMgr.exists) =>
       LET n == Len(config.recordings)
           data == GetRecordingData(recMgr)
       IN  /\ Cardinality(DOMAIN recMgr.recording_vectors) = n
           /\ Cardinality(DOMAIN data) = n + 1
           /\ data["time"] = recMgr.time_vector
           /\ data["time"].bound = "_ref_t"
           /\ \A i \in 1..n :
                 /\ config.recordings[i].name \in DOMAIN data
                 /\ data[config.recordings[i].name] = ProbeOf(config.recordings[i])

\* C18: the mapping a successful run_simulation returns is the one extracted
\* before cleanup: after the call it still has the key 'time' and the name of
\* every Recording, each series holding the samples of the run, although the
\* manager's probes and the section mapping have been cleared.
C18_ResultsSurviveCleanup ==
    outcome.kind = "returned" =>
       /\ outcome.results = retval
       /\ DOMAIN outcome.results =
             {"time"} \cup {config.recordings[i].name : i \in DOMAIN config.recordings}
       /\ \A k \in DOMAIN outcome.results : outcome.results[k].data = "trace"
       /\ \A i \in DOMAIN config.recordings :
             LET rc == config.recordings[i]
             IN  \E j \in DOMAIN config.recordings :
                    /\ config.recordings[j].name = rc.name
                    /\ outcome.results[rc.name] =
                          [ProbeOf(config.recordings[j]) EXCEPT !.data = "trace"]
       /\ recMgr.recording_vectors = EmptyMap
       /\ recMgr.time_vector = FreshVector
       /\ dicts[runnerSections] = {}

\* C18 witness: a run with two differently named recordings returned three
\* series of samples, and the probes and sections are gone
C18_Witness ==
    /\ outcome.kind = "returned"
    /\ DOMAIN outcome.results = {"time", "v_rec", "i_rec"}
    /\ outcome.results["time"] = [bound |-> "_ref_t", section |-> "none", data |-> "trace"]
    /\ outcome.results["i_rec"].bound = "_ref_i_membrane"
    /\ recMgr.recording_vectors = EmptyMap
    /\ dicts["builder"] = {}

====
